---- MODULE Spec2Model ----
(***************************************************************************)
(* Model of scripts/ingest_roadmap_v1.2.py: the check-then-insert          *)
(* ingestion of a roadmap catalog into a remote store through the read and *)
(* write proxies.  Two invocations of the script (runs) work against one   *)
(* store, one clock and one working directory.                             *)
(***************************************************************************)
EXTENDS Integers, Sequences, FiniteSets, TLC

VARIABLES
    catalog,   \* the roadmap list of ingest_roadmap (same for every run)
    store,     \* the remote projects table: records in insertion order
    clock,     \* wall clock, in whole seconds, as last read by a run
    files,     \* working directory: file name (second of the save) -> content
    pc,        \* per run: position of the script
    dry,       \* per run: the --dry-run flag
    idx,       \* per run: index of the item the for loop is at
    results,   \* the results dict of each run that has created one
    calls,     \* per run: the store calls issued so far, with their outcome
    preview,   \* per run: the preview lines a dry run logged
    summary,   \* per run: the counts logged under INGESTION SUMMARY
    ret,       \* per run: what ingest_roadmap returned
    exitCode,  \* per run: the exit code of the process
    faults,    \* calls that have failed so far (store and file system)
    overlap    \* whether a run may be started while another is still running

vars == <<catalog, store, clock, files, pc, dry, idx, results, calls,
          preview, summary, ret, exitCode, faults, overlap>>

(***************************************************************************)
(* Bounds of the model.                                                    *)
(***************************************************************************)
MaxLen == 2      \* longest catalog when the runs follow one another
MaxRaceLen == 1  \* longest catalog when the runs overlap
MaxFaults == 2   \* most calls that fail in one execution

Runs == {1, 2}

\* the seconds the clock shows: as many as runs, which tells two runs that
\* save within one second from two runs that save in different seconds
Seconds == 0..(Cardinality(Runs) - 1)

None == "None"
Running == -1

(***************************************************************************)
(* Catalog items: name, status and metadata.phase are what the script      *)
(* reads of an item.                                                       *)
(***************************************************************************)
Names == {"a", "b"}

Items ==
    { [name |-> "a", status |-> "complete", phase |-> "PHASE_0.5"],
      [name |-> "b", status |-> "planned", phase |-> "PHASE_1"] }

Catalogs(maxLen) == UNION { [1..n -> Items] : n \in 0..maxLen }

\* str(e) of the exceptions requests raises: post() itself, raise_for_status()
TransportError == "TransportError"
HttpStatusError == "HttpStatusError"
ExcMsgs == {TransportError, HttpStatusError}

\* the error strings a write response may carry
StoreErrors == {"dup"}

(***************************************************************************)
(* The remote store behind the two proxies.                                *)
(***************************************************************************)
\* slip: the filter compares another column, so no row ever matches
MatchingWrongColumn(name) == <<>>

\* rows whose name column equals the filter value, newest first
Matching(name) ==
    LET RECURSIVE Sel(_)
        Sel(k) == IF k = 0 THEN <<>>
                  ELSE IF store[k].name = name
                       THEN Sel(k - 1) \o <<store[k]>>
                       ELSE Sel(k - 1)
        Rev(s) == [i \in 1..Len(s) |-> s[Len(s) + 1 - i]]
    IN  Rev(Sel(Len(store)))

\* the id the store gives the next inserted row
NewId == ToString(Len(store) + 1)

\* the row an insert of item by run r adds
Inserted(item, r) == [name |-> item.name, id |-> NewId, by |-> r]

\* the JSON bodies the read proxy answers with
ReadResponses(name) == { [data |-> Matching(name)] }

\* the JSON bodies the write proxy answers with once the insert is applied
WriteOkResponses ==
    { [success |-> TRUE, recordIds |-> <<NewId>>],
      [success |-> TRUE, recordIds |-> <<>>],
      [success |-> TRUE] }

\* the JSON bodies the write proxy answers with when it rejects the insert
WriteErrResponses ==
    { [success |-> FALSE, error |-> e] : e \in StoreErrors }
        \cup { [success |-> FALSE] }

(***************************************************************************)
(* Pure helpers of ingest_roadmap.                                         *)
(***************************************************************************)
\* slip: the comparison is >= 0, so an empty data list counts as found
FoundAtLeastZero(existing) ==
    /\ "data" \in DOMAIN existing
    /\ Len(existing.data) >= 0

\* slip: the rows are looked up under a key the response does not have
FoundNever(existing) == FALSE

\* existing.get("data") and len(existing["data"]) > 0
Found(existing) ==
    /\ "data" \in DOMAIN existing
    /\ Len(existing.data) > 0

\* response.get("success")
IsSuccess(response) ==
    /\ "success" \in DOMAIN response
    /\ response.success

\* slip: the id of the response is never looked at
RecordIdAlwaysUnknown(response) == "unknown"

\* response["recordIds"][0] if response.get("recordIds") else "unknown"
RecordId(response) ==
    IF "recordIds" \in DOMAIN response /\ Len(response.recordIds) > 0
    THEN response.recordIds[1]
    ELSE "unknown"

\* slip: the default of the log line is used for the recorded detail too
ErrorOfDefault(response) ==
    IF "error" \in DOMAIN response THEN response.error ELSE "Unknown error"

\* response.get("error")
ErrorOf(response) ==
    IF "error" \in DOMAIN response THEN response.error ELSE None

\* the line a dry run logs for an item
PreviewLine(item) ==
    [glyph |-> IF item.status = "complete" THEN "done" ELSE "todo",
     phase |-> item.phase,
     name |-> item.name]

\* the results dict of a real run, as created before the loop at time now
NewResults(now) ==
    [success |-> <<>>, failed |-> <<>>, skipped |-> <<>>, timestamp |-> now]

\* where the for loop goes once item i is finished
AfterItem(i) == IF i >= Len(catalog) THEN "summary" ELSE "read"

\* slip: the failed partition is not looked at
MainExitAlwaysZero(dryRun, returned, res) == 0

\* the exit code __main__ ends with when ingest_roadmap returned: returned is
\* "None" (the bare return of a dry run) or "results" (the dict res)
MainExit(dryRun, returned, res) ==
    IF ~dryRun /\ returned = "results" /\ Len(res.failed) > 0 THEN 1 ELSE 0

\* slip: the except branch of __main__ ends like a clean run
FatalExitClean == MainExit(TRUE, "None", None)

\* the exit code of the except branch of __main__
FatalExit == 1

\* what a result file holds when json.dump did not finish: no report
PartialFile == [partial |-> TRUE]

\* output_file: the name embeds the second of the save
OutputFile(now) == now

(***************************************************************************)
(* Initial state: nothing has run; the store holds any rows from earlier.  *)
(***************************************************************************)
InitialStores ==
    { <<>>,
      <<[name |-> "a", id |-> "1", by |-> 0]>> }

Init ==
    /\ \/ overlap = FALSE /\ catalog \in Catalogs(MaxLen)
       \/ overlap = TRUE /\ catalog \in Catalogs(MaxRaceLen)
    /\ store \in InitialStores
    /\ clock = 0
    /\ files = <<>>
    /\ pc = [r \in Runs |-> "init"]
    /\ dry = [r \in Runs |-> FALSE]
    /\ idx = [r \in Runs |-> 0]
    /\ results = <<>>
    /\ calls = [r \in Runs |-> <<>>]
    /\ preview = [r \in Runs |-> <<>>]
    /\ summary = [r \in Runs |-> <<>>]
    /\ ret = [r \in Runs |-> "pending"]
    /\ exitCode = [r \in Runs |-> Running]
    /\ faults = 0

(***************************************************************************)
(* The script, one action per step between two store calls.                *)
(***************************************************************************)
\* the loop moves on from the item run r is at
Advance(r) ==
    /\ pc' = [pc EXCEPT ![r] = AfterItem(idx[r])]
    /\ idx' = [idx EXCEPT ![r] = idx[r] + 1]

\* slip: the entry is put at the front of the partition (insert(0, entry))
Append3AtFront(r, part, entry) ==
    results' = [results EXCEPT ![r][part] = <<entry>> \o results[r][part]]

\* results[part].append(entry)
Append3(r, part, entry) ==
    results' = [results EXCEPT ![r][part] = Append(results[r][part], entry)]

\* a store call (op, catalog position of its item) that ended in exception msg
Raised(op, i, msg) ==
    [op |-> op, pos |-> i, raised |-> msg, rows |-> 0,
     success |-> None, error |-> None, ids |-> <<>>]

\* a store call that was answered with the JSON body: what went over the wire
Answered(op, i, body) ==
    [op |-> op, pos |-> i, raised |-> None,
     rows |-> IF "data" \in DOMAIN body THEN Len(body.data) ELSE 0,
     success |-> IF "success" \in DOMAIN body
                 THEN IF body.success THEN "true" ELSE "false"
                 ELSE None,
     error |-> IF "error" \in DOMAIN body THEN body.error ELSE None,
     ids |-> IF "recordIds" \in DOMAIN body THEN body.recordIds ELSE <<>>]

\* run r has issued a store call that ended as call
Called(r, call) ==
    calls' = [calls EXCEPT ![r] = Append(calls[r], call)]

\* datetime.now(): time has passed since the clock was last read
Now(t) ==
    /\ t \in Seconds
    /\ t >= clock
    /\ clock' = t

\* the environment lets one more call fail
Fault ==
    /\ faults < MaxFaults
    /\ faults' = faults + 1

\* runs are numbered in the order they start; unless runs overlap, a run is
\* started once the runs before it have exited
MayStart(r) ==
    /\ pc[r] = "init"
    /\ \A q \in Runs : q < r => IF overlap THEN pc[q] # "init" ELSE pc[q] = "exited"

\* slip: the dry run lacks its return and falls through to the ingestion
DryRunFallsThrough(r) ==
    /\ MayStart(r)
    /\ dry' = [dry EXCEPT ![r] = TRUE]
    /\ preview' = [preview EXCEPT ![r] =
                      [i \in 1..Len(catalog) |-> PreviewLine(catalog[i])]]
    /\ results' = (r :> NewResults(clock)) @@ results
    /\ idx' = [idx EXCEPT ![r] = 1]
    /\ pc' = [pc EXCEPT ![r] = AfterItem(0)]
    /\ UNCHANGED <<ret, exitCode>>
    /\ UNCHANGED <<catalog, store, clock, files, calls, summary, faults,
                   overlap>>

\* python3 ingest_roadmap_v1.2.py --dry-run
DryRun(r) ==
    /\ MayStart(r)
    /\ dry' = [dry EXCEPT ![r] = TRUE]
    /\ preview' = [preview EXCEPT ![r] =
                      [i \in 1..Len(catalog) |-> PreviewLine(catalog[i])]]
    /\ ret' = [ret EXCEPT ![r] = "None"]
    /\ exitCode' = [exitCode EXCEPT ![r] = MainExit(TRUE, "None", None)]
    /\ pc' = [pc EXCEPT ![r] = "exited"]
    /\ UNCHANGED <<catalog, store, clock, files, idx, results, calls, summary, faults,
                   overlap>>

\* python3 ingest_roadmap_v1.2.py: up to the for loop
StartReal(r) ==
    /\ MayStart(r)
    /\ dry' = [dry EXCEPT ![r] = FALSE]
    /\ \E t \in Seconds :
          /\ Now(t)
          /\ results' = (r :> NewResults(t)) @@ results
    /\ idx' = [idx EXCEPT ![r] = 1]
    /\ pc' = [pc EXCEPT ![r] = AfterItem(0)]
    /\ UNCHANGED <<catalog, store, files, calls, preview, summary, ret, exitCode,
                   faults, overlap>>

\* slip: the try is around the loop, so the first exception ends the loop
ReadRaisedBreaks(r, i, item, msg) ==
    /\ Append3(r, "failed", [pos |-> i, name |-> item.name, error |-> msg])
    /\ pc' = [pc EXCEPT ![r] = "summary"]
    /\ UNCHANGED idx

\* read_projects raised msg: the except branch of the loop
ReadRaised(r, i, item, msg) ==
    /\ Append3(r, "failed", [pos |-> i, name |-> item.name, error |-> msg])
    /\ Advance(r)

\* slip: the test is inverted: a found item is inserted, a new one skipped
ReadReturnedInverted(r, i, item, existing) ==
    /\ IF ~Found(existing)
       THEN /\ Append3(r, "skipped", [pos |-> i, name |-> item.name])
            /\ Advance(r)
       ELSE /\ pc' = [pc EXCEPT ![r] = "write"]
            /\ UNCHANGED <<idx, results>>

\* slip: the continue is missing, so a skipped item is inserted as well
ReadReturnedNoContinue(r, i, item, existing) ==
    /\ IF Found(existing)
       THEN Append3(r, "skipped", [pos |-> i, name |-> item.name])
       ELSE UNCHANGED results
    /\ pc' = [pc EXCEPT ![r] = "write"]
    /\ UNCHANGED idx

\* read_projects returned existing: skip the item or go on to the insert
ReadReturned(r, i, item, existing) ==
    /\ IF Found(existing)
       THEN /\ Append3(r, "skipped", [pos |-> i, name |-> item.name])
            /\ Advance(r)
       ELSE /\ pc' = [pc EXCEPT ![r] = "write"]
            /\ UNCHANGED <<idx, results>>

\* the existence check of the item run r is at
ReadItem(r) ==
    /\ pc[r] = "read"
    /\ LET i == idx[r]
           item == catalog[i]
       IN  \/ \E msg \in ExcMsgs :
                /\ Fault
                /\ Called(r, Raised("read", i, msg))
                /\ ReadRaised(r, i, item, msg)
           \/ \E existing \in ReadResponses(item.name) :
                /\ UNCHANGED faults
                /\ Called(r, Answered("read", i, existing))
                /\ ReadReturned(r, i, item, existing)
    /\ UNCHANGED <<catalog, store, clock, files, dry, preview, summary, ret, exitCode,
                   overlap>>

\* slip: the item is recorded, but the exception ends the loop
WriteRaisedBreaks(r, i, item, msg) ==
    /\ Append3(r, "failed", [pos |-> i, name |-> item.name, error |-> msg])
    /\ pc' = [pc EXCEPT ![r] = "summary"]
    /\ UNCHANGED idx

\* slip: the exception is swallowed without recording the item
WriteRaisedSwallowed(r, i, item, msg) ==
    /\ UNCHANGED results
    /\ Advance(r)

\* write_project raised msg: the except branch of the loop
WriteRaised(r, i, item, msg) ==
    /\ Append3(r, "failed", [pos |-> i, name |-> item.name, error |-> msg])
    /\ Advance(r)

\* slip: a rejected insert is tried again instead of being recorded
WriteReturnedRetries(r, i, item, response) ==
    /\ IF IsSuccess(response)
       THEN /\ Append3(r, "success",
                       [pos |-> i, name |-> item.name, id |-> RecordId(response)])
            /\ Advance(r)
       ELSE UNCHANGED <<results, pc, idx>>

\* write_project returned response: the item is inserted or failed
WriteReturned(r, i, item, response) ==
    /\ IF IsSuccess(response)
       THEN Append3(r, "success",
                    [pos |-> i, name |-> item.name, id |-> RecordId(response)])
       ELSE Append3(r, "failed",
                    [pos |-> i, name |-> item.name, error |-> ErrorOf(response)])
    /\ Advance(r)

\* the insert of the item run r is at
WriteItem(r) ==
    /\ pc[r] = "write"
    /\ LET i == idx[r]
           item == catalog[i]
       IN  \/ \E msg \in ExcMsgs :
                \* the request failed before the store applied it
                /\ Fault
                /\ Called(r, Raised("write", i, msg))
                /\ WriteRaised(r, i, item, msg)
                /\ UNCHANGED store
           \/ \* the store applied the insert, the response was lost
              /\ Fault
              /\ Called(r, Raised("write", i, TransportError))
              /\ WriteRaised(r, i, item, TransportError)
              /\ store' = Append(store, Inserted(item, r))
           \/ \E response \in WriteOkResponses :
                /\ UNCHANGED faults
                /\ Called(r, Answered("write", i, response))
                /\ WriteReturned(r, i, item, response)
                /\ store' = Append(store, Inserted(item, r))
           \/ \E response \in WriteErrResponses :
                /\ Fault
                /\ Called(r, Answered("write", i, response))
                /\ WriteReturned(r, i, item, response)
                /\ UNCHANGED store
    /\ UNCHANGED <<catalog, clock, files, dry, preview, summary, ret, exitCode, overlap>>

\* saving the results at time now, the return and the exit
SaveResults(r, now) ==
    \/ \* open(output_file, 'w') and json.dump
       /\ files' = (OutputFile(now) :> results[r]) @@ files
       /\ UNCHANGED faults
       /\ ret' = [ret EXCEPT ![r] = "results"]
       /\ exitCode' = [exitCode EXCEPT ![r] = MainExit(dry[r], "results", results[r])]
    \/ \* open raised: the except branch of __main__
       /\ Fault
       /\ ret' = [ret EXCEPT ![r] = "raised"]
       /\ exitCode' = [exitCode EXCEPT ![r] = FatalExit]
       /\ UNCHANGED files
    \/ \* open truncated the file, json.dump raised: the except branch of __main__
       /\ Fault
       /\ ret' = [ret EXCEPT ![r] = "raised"]
       /\ exitCode' = [exitCode EXCEPT ![r] = FatalExit]
       /\ files' = (OutputFile(now) :> PartialFile) @@ files

\* after the loop: the summary, the result file, the return and the exit
Finish(r) ==
    /\ pc[r] = "summary"
    /\ summary' = [summary EXCEPT ![r] =
                      <<Len(results[r].success), Len(results[r].skipped),
                        Len(results[r].failed)>>]
    /\ \E t \in Seconds : Now(t) /\ SaveResults(r, t)
    /\ pc' = [pc EXCEPT ![r] = "exited"]
    /\ UNCHANGED <<catalog, store, dry, idx, results, calls, preview, overlap>>

Next ==
    \/ \E r \in Runs : DryRun(r)
    \/ \E r \in Runs : StartReal(r)
    \/ \E r \in Runs : ReadItem(r)
    \/ \E r \in Runs : WriteItem(r)
    \/ \E r \in Runs : Finish(r)

Spec == Init /\ [][Next]_vars

\* a started process keeps running: every store call returns or raises, and
\* the script takes its next step
Fairness ==
    \A r \in Runs :
        /\ WF_vars(ReadItem(r))
        /\ WF_vars(WriteItem(r))
        /\ WF_vars(Finish(r))

\* runs that follow one another, each running to its end once started
FairInit == Init /\ ~overlap

FairSpec == FairInit /\ [][Next]_vars /\ Fairness

(***************************************************************************)
(* Vocabulary of the properties.                                           *)
(***************************************************************************)
N == Len(catalog)

\* run r is a real run (it has created its results dict)
Real(r) == r \in DOMAIN results

\* run r is a real run whose for loop has ended
LoopDone(r) == Real(r) /\ pc[r] \in {"summary", "exited"}

\* run r is a real run that returned its results
Completed(r) == Real(r) /\ ret[r] = "results"

\* catalog position i is recorded in the partition
InPart(part, i) == \E k \in 1..Len(part) : part[k].pos = i

\* run r has recorded an outcome for catalog position i
HasOutcome(r, i) ==
    \/ InPart(results[r].success, i)
    \/ InPart(results[r].skipped, i)
    \/ InPart(results[r].failed, i)

\* the rows run r added to the store
AddedBy(r) == {k \in 1..Len(store) : store[k].by = r}

\* run r has issued a store call with the given operation for position i
HasCalled(r, op, i) ==
    \E k \in 1..Len(calls[r]) : calls[r][k].op = op /\ calls[r][k].pos = i

(***************************************************************************)
(* C1: a real run whose loop has ended has recorded exactly one outcome    *)
(* per catalog item: no catalog position is in two partitions or twice in  *)
(* one, and len(success) + len(skipped) + len(failed) = N.                 *)
(***************************************************************************)
C1_OneOutcomePerItem ==
    \A r \in Runs :
        LoopDone(r) =>
            /\ Len(results[r].success) + Len(results[r].skipped)
                   + Len(results[r].failed) = N
            /\ \A i \in 1..N :
                  /\ HasOutcome(r, i)
                  /\ ~(InPart(results[r].success, i) /\ InPart(results[r].skipped, i))
                  /\ ~(InPart(results[r].success, i) /\ InPart(results[r].failed, i))
                  /\ ~(InPart(results[r].skipped, i) /\ InPart(results[r].failed, i))
            /\ \A part \in {results[r].success, results[r].skipped, results[r].failed} :
                  \A k1, k2 \in 1..Len(part) : part[k1].pos = part[k2].pos => k1 = k2

C1_Witness ==
    \E r \in Runs :
        /\ LoopDone(r)
        /\ N = 2
        /\ Len(results[r].success) = 1
        /\ Len(results[r].failed) = 1

(***************************************************************************)
(* C2 as stated: of two real runs that follow one another over the same    *)
(* catalog, the second inserts nothing and records all N items as skipped. *)
(***************************************************************************)
SecondRunDone == ~overlap /\ Real(1) /\ LoopDone(2)

C2_SecondRunSkipsAll_Original ==
    SecondRunDone =>
        /\ results[2].success = <<>>
        /\ AddedBy(2) = {}
        /\ Len(results[2].skipped) = N

\* no existence check of run r has raised
ReadsReturned(r) ==
    \A k \in 1..Len(calls[r]) : calls[r][k].op = "read" => calls[r][k].raised = None

(***************************************************************************)
(* C2 amended: of two real runs that follow one another over the same      *)
(* catalog, when the first run recorded no item as failed and every        *)
(* existence check of the second run returns, the second run inserts       *)
(* nothing (empty success partition, no row added, no write call issued)   *)
(* and records all N items as skipped.                                     *)
(***************************************************************************)
C2_SecondRunSkipsAll ==
    (SecondRunDone /\ results[1].failed = <<>> /\ ReadsReturned(2)) =>
        /\ results[2].success = <<>>
        /\ results[2].failed = <<>>
        /\ AddedBy(2) = {}
        /\ \A i \in 1..N : ~HasCalled(2, "write", i)
        /\ Len(results[2].skipped) = N

C2_Witness ==
    /\ SecondRunDone
    /\ results[1].failed = <<>>
    /\ ReadsReturned(2)
    /\ N = 2
    /\ Len(results[1].success) >= 1
    /\ Len(results[2].skipped) = N

(***************************************************************************)
(* C3: a dry run issues no read and no write call, adds no row to the      *)
(* store, records no outcome, logs no summary and writes no result file;   *)
(* it logs one preview line per catalog item, in catalog order, and        *)
(* returns None.                                                           *)
(***************************************************************************)
C3_DryRunTouchesNothing ==
    \A r \in Runs :
        dry[r] =>
            /\ calls[r] = <<>>
            /\ AddedBy(r) = {}
            /\ ~Real(r)
            /\ summary[r] = <<>>
            /\ ret[r] = "None"
            /\ Cardinality(DOMAIN files)
                  <= Cardinality({q \in Runs : Real(q) /\ pc[q] = "exited"})
            /\ Len(preview[r]) = N
            /\ \A i \in 1..N : preview[r][i] = PreviewLine(catalog[i])

C3_Witness ==
    \E r \in Runs :
        /\ dry[r]
        /\ pc[r] = "exited"
        /\ N = 2
        /\ store # <<>>

(***************************************************************************)
(* C4: when the existence check of item X raises, X is recorded as failed  *)
(* with the raised error as its detail, no write call is issued for X, the *)
(* loop moves on, and once the loop has ended every item after X has had   *)
(* its existence check issued and has an outcome.                          *)
(***************************************************************************)
\* every item after position i has been checked and has an outcome
LaterItemsProcessed(r, i) ==
    \A j \in (i + 1)..N :
        /\ HasCalled(r, "read", j)
        /\ HasOutcome(r, j)

C4_ReadFailureIsolated ==
    \A r \in Runs :
        \A k \in 1..Len(calls[r]) :
            LET c == calls[r][k] IN
            (c.op = "read" /\ c.raised # None) =>
                /\ \E f \in 1..Len(results[r].failed) :
                      results[r].failed[f] =
                          [pos |-> c.pos, name |-> catalog[c.pos].name, error |-> c.raised]
                /\ ~InPart(results[r].success, c.pos)
                /\ ~InPart(results[r].skipped, c.pos)
                /\ ~HasCalled(r, "write", c.pos)
                /\ idx[r] > c.pos
                /\ LoopDone(r) => LaterItemsProcessed(r, c.pos)

C4_Witness ==
    \E r \in Runs :
        /\ LoopDone(r)
        /\ N = 2
        /\ calls[r][1].op = "read"
        /\ calls[r][1].raised = HttpStatusError
        /\ InPart(results[r].failed, 1)
        /\ InPart(results[r].success, 2)

(***************************************************************************)
(* C5: when the write call of item X raises, X is recorded as failed with  *)
(* the exception message as its detail and not as success, the loop moves  *)
(* on and the items after X are processed; a two-item catalog whose first  *)
(* item is inserted and whose second item's write raises ends with one     *)
(* success and one failed, the failed one carrying the second item's name. *)
(***************************************************************************)
C5_WriteExceptionIsolated ==
    \A r \in Runs :
        \A k \in 1..Len(calls[r]) :
            LET c == calls[r][k] IN
            (c.op = "write" /\ c.raised # None) =>
                /\ \E f \in 1..Len(results[r].failed) :
                      results[r].failed[f] =
                          [pos |-> c.pos, name |-> catalog[c.pos].name, error |-> c.raised]
                /\ ~InPart(results[r].success, c.pos)
                /\ idx[r] > c.pos
                /\ LoopDone(r) => LaterItemsProcessed(r, c.pos)
                /\ (LoopDone(r) /\ N = 2 /\ c.pos = 2 /\ InPart(results[r].success, 1)) =>
                      /\ Len(results[r].success) = 1
                      /\ Len(results[r].failed) = 1
                      /\ results[r].failed[1].name = catalog[2].name
                      /\ results[r].skipped = <<>>

C5_Witness ==
    \E r \in Runs :
        /\ LoopDone(r)
        /\ N = 2
        /\ InPart(results[r].success, 1)
        /\ \E k \in 1..Len(calls[r]) :
              /\ calls[r][k].op = "write"
              /\ calls[r][k].pos = 2
              /\ calls[r][k].raised = TransportError
        /\ Len(results[r].failed) = 1

(***************************************************************************)
(* C6: when the write call of item X returns success = false, X is         *)
(* recorded as failed with the response's error field as its detail (None  *)
(* when the response has none), and neither as success nor as skipped.     *)
(***************************************************************************)
C6_RejectedWriteFails ==
    \A r \in Runs :
        \A k \in 1..Len(calls[r]) :
            LET c == calls[r][k] IN
            (c.op = "write" /\ c.raised = None /\ c.success = "false") =>
                /\ \E f \in 1..Len(results[r].failed) :
                      results[r].failed[f] =
                          [pos |-> c.pos, name |-> catalog[c.pos].name, error |-> c.error]
                /\ ~InPart(results[r].success, c.pos)
                /\ ~InPart(results[r].skipped, c.pos)

C6_Witness ==
    \E r \in Runs :
        /\ Real(r)
        /\ \E k \in 1..Len(calls[r]) :
              /\ calls[r][k].op = "write"
              /\ calls[r][k].success = "false"
              /\ calls[r][k].error = "dup"
        /\ \E f \in 1..Len(results[r].failed) : results[r].failed[f].error = "dup"

(***************************************************************************)
(* C7: the exit code is 0 for a dry run and for a real run that returned   *)
(* with an empty failed partition, 1 for a real run that returned with a   *)
(* failed item and 1 when an error escaped ingest_roadmap; a process that  *)
(* has not exited has no exit code.                                        *)
(***************************************************************************)
C7_ExitCode ==
    \A r \in Runs :
        /\ pc[r] # "exited" => exitCode[r] = Running
        /\ pc[r] = "exited" =>
              /\ ret[r] \in {"None", "results", "raised"}
              /\ ret[r] = "None" => dry[r] /\ exitCode[r] = 0
              /\ ret[r] = "raised" => exitCode[r] = 1
              /\ ret[r] = "results" =>
                    /\ Real(r)
                    /\ exitCode[r] = IF results[r].failed = <<>> THEN 0 ELSE 1
              /\ (Real(r) /\ results[r].failed # <<>>) => exitCode[r] = 1

C7_Witness ==
    \E r, q \in Runs :
        /\ Completed(r) /\ results[r].failed # <<>> /\ exitCode[r] = 1
        /\ Completed(q) /\ results[q].failed = <<>> /\ exitCode[q] = 0
        /\ results[q].skipped # <<>>

(***************************************************************************)
(* C8: the store comes to hold two rows with the same name only through    *)
(* the race of two overlapping runs: the two rows were added by two        *)
(* different runs, each of which had read "no matching row" for the item   *)
(* before it wrote.  The witness is the race itself: both runs have        *)
(* inserted the same name.                                                 *)
(***************************************************************************)
\* run r was answered "no rows" by the existence check of an item named name
ReadAbsent(r, name) ==
    \E k \in 1..Len(calls[r]) :
        /\ calls[r][k].op = "read"
        /\ calls[r][k].raised = None
        /\ calls[r][k].rows = 0
        /\ catalog[calls[r][k].pos].name = name

C8_DuplicatesOnlyByRace ==
    \A k1, k2 \in 1..Len(store) :
        (k1 < k2 /\ store[k1].name = store[k2].name) =>
            /\ overlap
            /\ store[k1].by \in Runs
            /\ store[k2].by \in Runs
            /\ store[k1].by # store[k2].by
            /\ ReadAbsent(store[k1].by, store[k1].name)
            /\ ReadAbsent(store[k2].by, store[k2].name)

C8_Witness ==
    \E k1, k2 \in 1..Len(store) :
        /\ k1 < k2
        /\ store[k1].name = store[k2].name
        /\ store[k1].by = 1
        /\ store[k2].by = 2
        /\ InPart(results[1].success, 1)
        /\ InPart(results[2].success, 1)

(***************************************************************************)
(* C9 as stated: every real run that returned has its own result file:     *)
(* there are as many intact result files as real runs that returned.       *)
(***************************************************************************)
C9_OneFilePerRun ==
    Cardinality({f \in DOMAIN files : files[f] # PartialFile})
        = Cardinality({r \in Runs : Completed(r)})

(***************************************************************************)
(* C10: within a run at most one read call and at most one write call are  *)
(* issued per item, and a write call for an item comes only after the      *)
(* item's read call has returned without a matching row: never for an item *)
(* that was skipped or whose read raised.                                  *)
(***************************************************************************)
C10_SingleAttemptReadBeforeWrite ==
    \A r \in Runs :
        /\ \A k1, k2 \in 1..Len(calls[r]) :
              (calls[r][k1].op = calls[r][k2].op /\ calls[r][k1].pos = calls[r][k2].pos)
                  => k1 = k2
        /\ \A i \in 1..N :
              (Real(r) /\ InPart(results[r].skipped, i)) => ~HasCalled(r, "write", i)
        /\ \A k \in 1..Len(calls[r]) :
              calls[r][k].op = "write" =>
                  \E j \in 1..(k - 1) :
                      /\ calls[r][j].op = "read"
                      /\ calls[r][j].pos = calls[r][k].pos
                      /\ calls[r][j].raised = None
                      /\ calls[r][j].rows = 0
        /\ \A k \in 1..Len(calls[r]) : calls[r][k].pos \in 1..N

C10_Witness ==
    \E r \in Runs :
        /\ LoopDone(r)
        /\ N = 2
        /\ InPart(results[r].skipped, 1)
        /\ ~HasCalled(r, "write", 1)
        /\ HasCalled(r, "write", 2)
        /\ Len(calls[r]) = 3

(***************************************************************************)
(* C11: a run processes the items one after another in catalog order: its  *)
(* store calls are issued in catalog order (all calls for item i before    *)
(* those for item i+1), the read call of an item is issued only once every *)
(* earlier item has its outcome, no item beyond the one the loop is at has *)
(* an outcome or a call, and within each partition the outcomes are in     *)
(* catalog order.                                                          *)
(***************************************************************************)
\* the entries of the partition are in catalog order
InCatalogOrder(part) ==
    \A k \in 1..(Len(part) - 1) : part[k].pos < part[k + 1].pos

C11_CatalogOrderSequential ==
    \A r \in Runs :
        /\ \A k \in 1..(Len(calls[r]) - 1) : calls[r][k].pos <= calls[r][k + 1].pos
        /\ \A k \in 1..Len(calls[r]) :
              \A j \in 1..(calls[r][k].pos - 1) : HasOutcome(r, j)
        /\ Real(r) =>
              /\ \A j \in 1..N :
                    /\ j < idx[r] => HasOutcome(r, j)
                    /\ j > idx[r] => ~HasOutcome(r, j) /\ ~HasCalled(r, "read", j)
                    /\ (j = idx[r] /\ pc[r] = "read") =>
                          ~HasOutcome(r, j) /\ ~HasCalled(r, "read", j)
                    /\ (j = idx[r] /\ pc[r] = "write") =>
                          ~HasOutcome(r, j) /\ ~HasCalled(r, "write", j)
              /\ InCatalogOrder(results[r].success)
              /\ InCatalogOrder(results[r].skipped)
              /\ InCatalogOrder(results[r].failed)

C11_Witness ==
    \E r \in Runs :
        /\ LoopDone(r)
        /\ N = 2
        /\ Len(results[r].failed) = 2
        /\ Len(calls[r]) = 3
        /\ calls[r][3].op = "write"

(***************************************************************************)
(* C12: the existence check counts an item as found exactly when the read  *)
(* response carries at least one row: an item whose read returned is       *)
(* skipped if and only if the response had a row; with an empty data list  *)
(* it goes on to the insert and is never skipped; and an item is skipped   *)
(* only after such a read.                                                 *)
(***************************************************************************)
C12_FoundIffRows ==
    \A r \in Runs :
        /\ \A k \in 1..Len(calls[r]) :
              LET c == calls[r][k] IN
              (c.op = "read" /\ c.raised = None) =>
                  /\ c.rows > 0 <=> InPart(results[r].skipped, c.pos)
                  /\ c.rows > 0 => ~HasCalled(r, "write", c.pos)
                  /\ c.rows = 0 =>
                        \/ HasCalled(r, "write", c.pos)
                        \/ pc[r] = "write" /\ idx[r] = c.pos
        /\ Real(r) =>
              \A e \in 1..Len(results[r].skipped) :
                  \E k \in 1..Len(calls[r]) :
                      /\ calls[r][k].op = "read"
                      /\ calls[r][k].pos = results[r].skipped[e].pos
                      /\ calls[r][k].raised = None
                      /\ calls[r][k].rows > 0
                      /\ results[r].skipped[e].name = catalog[calls[r][k].pos].name

C12_Witness ==
    \E r \in Runs :
        /\ Real(r)
        /\ Len(calls[r]) >= 3
        /\ calls[r][1].op = "read" /\ calls[r][1].rows = 1
        /\ InPart(results[r].skipped, 1)
        /\ calls[r][2].op = "read" /\ calls[r][2].raised = None /\ calls[r][2].rows = 0
        /\ calls[r][3].op = "write" /\ calls[r][3].pos = 2

(***************************************************************************)
(* C13: when the write response of an item has success = true, the item is *)
(* recorded as success with its name and with the first of the response's  *)
(* recordIds as id, or "unknown" when the response has none; it is neither *)
(* failed nor skipped; and every success entry comes from such a response. *)
(***************************************************************************)
\* the entry the success partition gets for the answered write call c
InsertedEntry(c) ==
    [pos |-> c.pos, name |-> catalog[c.pos].name,
     id |-> IF c.ids # <<>> THEN c.ids[1] ELSE "unknown"]

C13_SuccessfulWriteInserted ==
    \A r \in Runs :
        /\ \A k \in 1..Len(calls[r]) :
              LET c == calls[r][k] IN
              (c.op = "write" /\ c.raised = None /\ c.success = "true") =>
                  /\ \E e \in 1..Len(results[r].success) :
                        results[r].success[e] = InsertedEntry(c)
                  /\ ~InPart(results[r].failed, c.pos)
                  /\ ~InPart(results[r].skipped, c.pos)
        /\ Real(r) =>
              \A e \in 1..Len(results[r].success) :
                  \E k \in 1..Len(calls[r]) :
                      /\ calls[r][k].op = "write"
                      /\ calls[r][k].success = "true"
                      /\ results[r].success[e] = InsertedEntry(calls[r][k])

C13_Witness ==
    \E r \in Runs :
        /\ Completed(r)
        /\ N = 2
        /\ Len(results[r].success) = 2
        /\ results[r].success[1].id = "unknown"
        /\ results[r].success[2].id = "2"
        /\ summary[r] = <<2, 0, 0>>
        /\ exitCode[r] = 0

(***************************************************************************)
(* C14 as stated: a real run that has ended has logged its summary counts  *)
(* and has persisted and returned its report, however many items failed.   *)
(***************************************************************************)
\* the counts of the three partitions of run r, as the summary logs them
Counts(r) ==
    <<Len(results[r].success), Len(results[r].skipped), Len(results[r].failed)>>

C14_EndedRunPersisted_Original ==
    \A r \in Runs :
        (Real(r) /\ pc[r] = "exited") =>
            /\ summary[r] = Counts(r)
            /\ ret[r] = "results"

(***************************************************************************)
(* C14 amended: every started real run eventually ends with an outcome for *)
(* each of the N items and with its summary counts logged, however many    *)
(* items failed, and it has then persisted and returned its report unless  *)
(* writing the result file itself raised.                                  *)
(***************************************************************************)
\* run r has ended after all N items, with its summary and, unless the save
\* raised, with its report in the file of the current second
EndedWithReport(r) ==
    /\ Real(r)
    /\ pc[r] = "exited"
    /\ \A i \in 1..N : HasOutcome(r, i)
    /\ summary[r] = Counts(r)
    /\ ret[r] \in {"results", "raised"}
    /\ ret[r] = "results" => (clock \in DOMAIN files /\ files[clock] = results[r])

C14_RunEventuallyReports ==
    \A r \in Runs : (Real(r) /\ pc[r] # "exited") ~> EndedWithReport(r)

C14_Witness ==
    \E r \in Runs :
        /\ Real(r)
        /\ N = 2
        /\ Len(results[r].failed) = 2
        /\ EndedWithReport(r)
        /\ summary[r] = <<0, 0, 2>>
        /\ ret[r] = "results"

(***************************************************************************)
(* C15: an error raised after the loop, while the result file is written,  *)
(* is fatal: the step in which it escapes leaves the results dict as it is *)
(* (it is no item's failed outcome), ends the process with exit code 1,    *)
(* returns no report and writes no report: a file it touched holds no      *)
(* report.                                                                 *)
(***************************************************************************)
\* the step in which an error escapes ingest_roadmap in run r
Escapes(r) == ret[r] = "pending" /\ ret'[r] = "raised"

C15_ErrorAfterLoopIsFatal ==
    [][\A r \in Runs :
          Escapes(r) =>
              /\ pc[r] = "summary"
              /\ results' = results
              /\ pc'[r] = "exited"
              /\ exitCode'[r] = 1
              /\ \A f \in DOMAIN files' :
                    (f \notin DOMAIN files \/ files'[f] # files[f])
                        => files'[f] = PartialFile]_vars

C15_Witness ==
    \E r \in Runs :
        /\ Real(r)
        /\ ret[r] = "raised"
        /\ exitCode[r] = 1
        /\ N = 2
        /\ Len(results[r].success) = 1
        /\ Len(results[r].failed) = 1
        /\ summary[r] = <<1, 0, 1>>
        /\ files = <<>>

(***************************************************************************)
(* C16: when the runs follow one another, the pipeline never adds a row    *)
(* whose name the store already holds, so no two rows of one name were     *)
(* inserted by the pipeline; this also holds when the catalog has a name   *)
(* twice: once the earlier occurrence is inserted, a later occurrence      *)
(* whose read returns is skipped.                                          *)
(***************************************************************************)
C16_NoDuplicateWithoutOverlap ==
    ~overlap =>
        /\ \A k1, k2 \in 1..Len(store) :
              (k1 < k2 /\ store[k1].name = store[k2].name) => store[k2].by \notin Runs
        /\ \A r \in Runs :
              \A k \in 1..Len(calls[r]) :
                  LET c == calls[r][k] IN
                  (/\ c.op = "read"
                   /\ c.raised = None
                   /\ \E i \in 1..(c.pos - 1) :
                         /\ catalog[i].name = catalog[c.pos].name
                         /\ InPart(results[r].success, i))
                      => InPart(results[r].skipped, c.pos)

C16_Witness ==
    /\ ~overlap
    /\ N = 2
    /\ catalog[1].name = catalog[2].name
    /\ Real(1)
    /\ InPart(results[1].success, 1)
    /\ InPart(results[1].skipped, 2)
    /\ LoopDone(2)
    /\ Len(results[2].skipped) = 2
    /\ Len(store) = 1

(***************************************************************************)
(* C17 as stated: when the loop of a real run has ended and no other run   *)
(* overlapped it, the success partition names exactly the rows this run    *)
(* added to the store: as many rows as success entries, with the same      *)
(* names, so that no failed or skipped item stands for a row the run added.*)
(***************************************************************************)
C17_SuccessIsWhatWasAdded ==
    \A r \in Runs :
        (~overlap /\ LoopDone(r)) =>
            /\ Cardinality(AddedBy(r)) = Len(results[r].success)
            /\ \A k \in AddedBy(r) :
                  \E e \in 1..Len(results[r].success) :
                      results[r].success[e].name = store[k].name
            /\ \A e \in 1..Len(results[r].success) :
                  \E k \in AddedBy(r) : store[k].name = results[r].success[e].name

====
